---------------------------- MODULE Spec2Model ----------------------------
(*
  Model of src/app.py: a Streamlit script that builds a Mamdani fuzzy
  inference system with scikit-fuzzy (three antecedents, one consequent,
  four rules), binds three slider values, computes, writes the result and
  draws four membership charts.

  Numbers.  Abscissae are integers in thousandths (the universe step, 0.001):
  the universe np.arange(0, 1.2, 0.001) is 0..1199, a slider value 0.30 is
  300.  Membership degrees are integers in units of 1/DegOne.  Every ramp of
  the declared terms is 0.1 or 0.2 wide, so every sampled degree is a whole
  number of these units and the arithmetic below is exact; it is the
  arithmetic of the reals, not of binary floating point.  A crisp output is
  a fraction <<num, den>> of thousandths in lowest terms.
*)
EXTENDS Integers, Sequences, FiniteSets, TLC

\* Membership degree 1.0 (the value fuzz.trimf stores at the peak).
DegOne == 200

\* np.arange(0, 1.2, 0.001): the 1200 sample points 0.000 .. 1.199.
UniverseLast == 1199
Universe == 0 .. UniverseLast

\* Python's None where a number is expected (an input not bound, a term
\* without a cut); every real value is >= 0.
None == -1

\* What numpy yields for a division by zero (inf or nan): not a degree.
NaN == -2

Min(a, b) == IF a <= b THEN a ELSE b
Max(a, b) == IF a >= b THEN a ELSE b

-----------------------------------------------------------------------------
(* Membership functions: fuzz.trimf and fuzz.trapmf at one sample point.   *)

\* fuzz.trimf(x, [a, b, c]): zeros, the left ramp when a # b, the right
\* ramp when b # c, and 1 where x = b (written last).
Divide(num, den) == IF den = 0 THEN NaN ELSE (num * DegOne) \div den

\* trimf with the right ramp divided by the whole base c - a.
trimf_whole_base(x, abc) ==
    LET a == abc[1]
        b == abc[2]
        c == abc[3]
    IN  IF x = b THEN DegOne
        ELSE IF b # c /\ b < x /\ x < c THEN Divide(c - x, c - a)
        ELSE IF a # b /\ a < x /\ x < b THEN Divide(x - a, b - a)
        ELSE 0

\* trimf without the final write of 1 at x = b.
trimf_no_peak(x, abc) ==
    LET a == abc[1]
        b == abc[2]
        c == abc[3]
    IN  IF b # c /\ b < x /\ x < c THEN Divide(c - x, c - b)
        ELSE IF a # b /\ a < x /\ x < b THEN Divide(x - a, b - a)
        ELSE 0

trimf(x, abc) ==
    LET a == abc[1]
        b == abc[2]
        c == abc[3]
    IN  IF x = b THEN DegOne
        ELSE IF b # c /\ b < x /\ x < c THEN Divide(c - x, c - b)
        ELSE IF a # b /\ a < x /\ x < b THEN Divide(x - a, b - a)
        ELSE 0

\* fuzz.trapmf(x, [a, b, c, d]): ones; trimf(a, b, b) where x <= b; then
\* trimf(c, c, d) where x >= c; then 0 where x < a; then 0 where x > d.
\* Later writes win, so they are tested first.
trapmf(x, abcd) ==
    LET a == abcd[1]
        b == abcd[2]
        c == abcd[3]
        d == abcd[4]
    IN  IF x > d THEN 0
        ELSE IF x < a THEN 0
        ELSE IF x >= c THEN trimf(x, <<c, c, d>>)
        ELSE IF x <= b THEN trimf(x, <<a, b, b>>)
        ELSE DegOne

\* The breakpoints each term is declared with, in thousandths.
m_abcd == [muito_pequeno |-> <<0, 0, 100, 300>>,
           pequeno       |-> <<100, 300, 500>>,
           medio         |-> <<400, 600, 700, 700>>]

p_abcd == [baixo |-> <<0, 0, 200, 400>>,
           medio |-> <<300, 500, 700>>,
           alto  |-> <<600, 800, 1000, 1000>>]

s_abcd == [pequeno |-> <<0, 0, 400, 600>>,
           medio   |-> <<400, 600, 800>>,
           grande  |-> <<600, 800, 1000, 1000>>]

n_abcd == [muito_pequeno |-> <<0, 0, 100, 300>>,
           pequeno       |-> <<0, 200, 400>>,
           pouco_pequeno |-> <<250, 350, 450>>,
           medio         |-> <<300, 500, 700>>,
           pouco_grande  |-> <<550, 650, 750>>,
           grande        |-> <<600, 800, 1000>>,
           muito_grande  |-> <<700, 900, 1000, 1000>>]

\* The terms of numero_pecas in the order they are declared.
n_terms == <<"muito_pequeno", "pequeno", "pouco_pequeno", "medio",
             "pouco_grande", "grande", "muito_grande">>

\* A numpy array over the universe, as a sequence: the sample at point x
\* is element x + 1.  array(f, lo, hi) is <<f[lo], ..., f[hi]>>.
RECURSIVE array(_, _, _)
array(f, lo, hi) ==
    IF lo = hi THEN <<f[lo]>>
    ELSE LET mid == (lo + hi) \div 2
         IN  array(f, lo, mid) \o array(f, mid + 1, hi)

at(a, x) == a[x + 1]

\* A term's sampled membership array: trimf for three breakpoints, trapmf
\* for four, evaluated at every point of the universe.
mf(pts) ==
    array([x \in Universe |->
              IF Len(pts) = 3 THEN trimf(x, pts) ELSE trapmf(x, pts)],
          0, UniverseLast)


\* The linguistic variables with their sampled terms (lines 21-46).
m == [l \in DOMAIN m_abcd |-> mf(m_abcd[l])]
p == [l \in DOMAIN p_abcd |-> mf(p_abcd[l])]
s == [l \in DOMAIN s_abcd |-> mf(s_abcd[l])]
n == [l \in DOMAIN n_abcd |-> mf(n_abcd[l])]

\* The antecedents by label, as sim.input names them.
Antecedents == [tempo_espera        |-> m,
                fator_utilizacao    |-> p,
                numero_funcionarios |-> s]
InputNames == DOMAIN Antecedents

-----------------------------------------------------------------------------
(* Rules.  An antecedent is a term m['x'] or a combination a & b, a | b.   *)

Term(var, label) == [op |-> "term", var |-> var, label |-> label]
And(a, b) == [op |-> "and", left |-> a, right |-> b]
Or(a, b) == [op |-> "or", left |-> a, right |-> b]

rule1 == [label |-> "rule1",
          antecedent |-> And(Term("tempo_espera", "muito_pequeno"),
                             Term("numero_funcionarios", "pequeno")),
          consequent |-> "muito_grande"]
rule2 == [label |-> "rule2",
          antecedent |-> And(Term("tempo_espera", "pequeno"),
                             Term("numero_funcionarios", "grande")),
          consequent |-> "pequeno"]
rule3 == [label |-> "rule3",
          antecedent |-> Term("fator_utilizacao", "baixo"),
          consequent |-> "pequeno"]
\* rule4 on the middle term of fator_utilizacao.
rule4_medio == [label |-> "rule4",
                antecedent |-> Term("fator_utilizacao", "medio"),
                consequent |-> "grande"]

rule4 == [label |-> "rule4",
          antecedent |-> Term("fator_utilizacao", "alto"),
          consequent |-> "grande"]

\* ctrl.ControlSystem([rule1, rule2, rule3, rule4]): the rules in order.
ControlSystem == <<rule1, rule2, rule3, rule4>>
RuleLabels == {"rule1", "rule2", "rule3", "rule4"}

-----------------------------------------------------------------------------
(* What simulation.compute() does, step by step.                           *)

\* Fuzzification of one crisp value: the sampled array read at the value
\* (linear interpolation between samples; 0 outside the universe).  Inputs
\* are whole thousandths, so the value is a sample point.
interp_membership(xmf, xx) == IF xx \in Universe THEN at(xmf, xx) ELSE 0

\* Every term of every antecedent at its bound input.
fuzz(input) ==
    [v \in InputNames |->
        [l \in DOMAIN Antecedents[v] |->
            interp_membership(Antecedents[v][l], input[v])]]

\* aggregate_firing with & evaluated as |.
RECURSIVE aggregate_firing_and_as_or(_, _)
aggregate_firing_and_as_or(expr, fz) ==
    IF expr.op = "term" THEN fz[expr.var][expr.label]
    ELSE Max(aggregate_firing_and_as_or(expr.left, fz),
             aggregate_firing_and_as_or(expr.right, fz))

\* fmin for &, fmax for |, the term's own degree for a single term.
RECURSIVE aggregate_firing(_, _)
aggregate_firing(expr, fz) ==
    CASE expr.op = "term" -> fz[expr.var][expr.label]
      [] expr.op = "and"  -> Min(aggregate_firing(expr.left, fz),
                                 aggregate_firing(expr.right, fz))
      [] expr.op = "or"   -> Max(aggregate_firing(expr.left, fz),
                                 aggregate_firing(expr.right, fz))

\* Accumulation of one firing into its consequent term's cut: the value
\* itself when the term has none yet, else the larger of the two (fmax).
accumulate_overwrite(value, old) == value

accumulate(value, old) == IF old = None THEN value ELSE Max(value, old)

\* compute_rule over the rule list, left to right, from cuts mv.
RECURSIVE compute_rules(_, _, _)
compute_rules(rules, fz, mv) ==
    IF rules = <<>> THEN mv
    ELSE LET rule == Head(rules)
             value == aggregate_firing(rule.antecedent, fz)
         IN  compute_rules(Tail(rules), fz,
                 [mv EXCEPT ![rule.consequent] = accumulate(value, @)])

\* No consequent term has a cut before the rules run.
NoCuts == [l \in DOMAIN n |-> None]

\* The aggregate of numero_pecas at a sample point: the largest, over the
\* terms that have a cut, of the term's degree capped at its cut.
\* scikit-fuzzy also inserts the abscissae where a term crosses its cut;
\* for the terms the rules name these are sample points of the universe,
\* but for the point inside the one-step drop of muito_grande after 1.000,
\* which is integrated here as the one segment it is on the grid.
RECURSIVE output_mf_over(_, _, _)
output_mf_over(labels, mv, x) ==
    IF labels = <<>> THEN 0
    ELSE LET l == Head(labels)
         IN  Max(Min(mv[l], at(n[l], x)), output_mf_over(Tail(labels), mv, x))

output_mf(mv) ==
    LET cut == SelectSeq(n_terms, LAMBDA l : mv[l] # None)
    IN  array([x \in Universe |-> output_mf_over(cut, mv, x)], 0, UniverseLast)

\* The sum of the pairs f[lo], ..., f[hi], componentwise (integer
\* addition: the order is immaterial).
RECURSIVE SumOver(_, _, _)
SumOver(f, lo, hi) ==
    IF lo = hi THEN f[lo]
    ELSE LET mid == (lo + hi) \div 2
             l == SumOver(f, lo, mid)
             r == SumOver(f, mid + 1, hi)
         IN  <<l[1] + r[1], l[2] + r[2]>>

\* segment with the moments taken from the segment's right end.
segment_from_right(y, i) ==
    LET x2 == i
        y1 == at(y, i - 1)
        y2 == at(y, i)
    IN  IF y1 = 0 /\ y2 = 0 THEN <<0, 0>>
        ELSE <<(2 * y2 + y1) + 3 * x2 * (y1 + y2), y1 + y2>>

\* centroid's loop body for the segment between samples i-1 and i, as
\* <<6 * moment * area, 2 * area>> (whole numbers).
segment(y, i) ==
    LET x1 == i - 1
        x2 == i
        y1 == at(y, i - 1)
        y2 == at(y, i)
        dx == x2 - x1
    IN  IF (y1 = 0 /\ y2 = 0) \/ x1 = x2 THEN <<0, 0>>
        ELSE IF y1 = y2 THEN                 \* rectangle
            <<3 * (x1 + x2) * dx * y1, 2 * dx * y1>>
        ELSE IF y1 = 0 THEN                  \* triangle, height y2
            <<(2 * dx + 3 * x1) * dx * y2, dx * y2>>
        ELSE IF y2 = 0 THEN                  \* triangle, height y1
            <<(dx + 3 * x1) * dx * y1, dx * y1>>
        ELSE                                 \* trapezoid
            <<dx * dx * (2 * y2 + y1) + 3 * x1 * dx * (y1 + y2),
              dx * (y1 + y2)>>

RECURSIVE GCD(_, _)
GCD(a, b) == IF b = 0 THEN a ELSE GCD(b, a % b)

\* num/den in lowest terms.
Fraction(num, den) ==
    LET g == GCD(num, den) IN <<num \div g, den \div g>>

\* centroid(x, mfx): sum of moment * area over sum of area.
centroid(y) ==
    LET sums == SumOver([i \in 1 .. UniverseLast |-> segment(y, i)],
                        1, UniverseLast)
        sum_moment_area6 == sums[1]
        sum_area2 == sums[2]
    IN  Fraction(sum_moment_area6, 3 * sum_area2)

\* defuzz(universe, output_mf, 'centroid'): refuses a zero total, mfx.sum().
zero_truth_degree(y) ==
    SumOver([x \in Universe |-> <<at(y, x), 0>>], 0, UniverseLast)[1] = 0


\* defuzz that answers 0 for a zero total instead of refusing.
defuzz_zero_for_empty(mv) ==
    LET y == output_mf(mv)
    IN  IF zero_truth_degree(y) THEN <<0, 1>> ELSE centroid(y)

\* The defuzzified value or the refusal, from the cuts of the terms.
defuzz(mv) ==
    LET y == output_mf(mv)
    IN  IF zero_truth_degree(y) THEN <<>> ELSE centroid(y)

\* The two ways compute() raises (both a ValueError in scikit-fuzzy):
\* "All antecedents must have input values!" and "Crisp output cannot be
\* calculated, likely because the system is too sparse."
UnboundInput == "UnboundInput"
DefuzzificationUndefined == "DefuzzificationUndefined"

\* A fresh ControlSystemSimulation: nothing bound, nothing computed.
ControlSystemSimulation ==
    [input            |-> [v \in InputNames |-> None],
     firing           |-> [r \in RuleLabels |-> None],
     membership_value |-> NoCuts,
     output           |-> <<>>]

\* compute() once every antecedent has a value: fuzzify, run the rules in
\* order from terms without cuts, defuzzify.  A zero aggregate raises
\* after the rules ran and leaves the output as it was.
compute_bound(rules, sim) ==
    LET fz == fuzz(sim.input)
        fired == [r \in RuleLabels |->
                     LET i == CHOOSE k \in 1 .. Len(rules) : rules[k].label = r
                     IN  aggregate_firing(rules[i].antecedent, fz)]
        mv == compute_rules(rules, fz, NoCuts)
        ran == [sim EXCEPT !.firing = fired, !.membership_value = mv]
    IN  LET crisp == defuzz(mv)
        IN  IF crisp = <<>>
            THEN [sim |-> ran, error |-> DefuzzificationUndefined]
            ELSE [sim |-> [ran EXCEPT !.output = [numero_pecas |-> crisp]],
                  error |-> ""]

\* compute() that takes 0 for an antecedent without a value.
compute_default_zero(rules, sim) ==
    LET filled == [v \in InputNames |->
                      IF sim.input[v] = None THEN 0 ELSE sim.input[v]]
        done == compute_bound(rules, [sim EXCEPT !.input = filled])
    IN  [sim |-> [done.sim EXCEPT !.input = sim.input], error |-> done.error]

\* simulation.compute() on the rule list: the simulation afterwards and
\* the error raised ("" when none).  An unbound antecedent raises before
\* anything is computed.
compute(rules, sim) ==
    IF \E v \in InputNames : sim.input[v] = None
    THEN [sim |-> sim, error |-> UnboundInput]
    ELSE compute_bound(rules, sim)

\* sim.input[name] = value: the value clipped to the universe
\* (clip_to_bounds is on by default).
set_input(sim, name, value) ==
    [sim EXCEPT !.input[name] = Min(UniverseLast, Max(0, value))]

\* f'{value:.2f}': the value in hundredths, rounded half to even.
format_2f(value) ==
    LET q == value[1] \div value[2]
        r == value[1] % value[2]
        h == q \div 10
        t == q % 10
        up == t > 5 \/ (t = 5 /\ r > 0) \/ (t = 5 /\ r = 0 /\ h % 2 = 1)
    IN  IF up THEN h + 1 ELSE h

-----------------------------------------------------------------------------
(* The script.  Streamlit runs it top to bottom, once per browser session
   and again whenever a slider of that session moves; every run builds its
   own objects.  A session is at a line of the script.                     *)

\* The browser sessions that may be open at once.
Sessions == {"A", "B"}

\* st.slider(label, 0.0, 1.0, 0.3, step=0.01), in thousandths.
SliderMax == 1000
SliderDefault == 300
SliderStep == 10

\* Slider positions the runs draw from: every SliderStride-th step of the
\* slider for one session, coarser ones where rule orders or two sessions
\* multiply the runs.
SliderStride == 10
PermStride == 100
ConcStride == 60
ApiStride == 50

SliderValues(stride) ==
    {v \in 0 .. SliderMax : v % (SliderStep * stride) = 0}

VARIABLES
    system,               \* the rule list of the ControlSystem (line 55)
    pc,                   \* per session: the line about to run
    tempo_espera,         \* per session: the slider values (lines 62-64)
    fator_utilizacao,
    numero_funcionarios,
    sim,                  \* per session: the ControlSystemSimulation (line 56)
    safe,                 \* per session: what safe_compute returned
    st_error,             \* per session: the error st.error displayed
    st_write,             \* per session: the number st.write displayed
    charts,               \* per session: the charts drawn so far
    probe                 \* a membership function under evaluation

vars == <<system, pc, tempo_espera, fator_utilizacao, numero_funcionarios,
          sim, safe, st_error, st_write, charts, probe>>

sliders == <<tempo_espera, fator_utilizacao, numero_funcionarios>>
display == <<st_error, st_write, charts>>

\* The slider value a session's script holds for an input name.
slider(u, name) ==
    CASE name = "tempo_espera"        -> tempo_espera[u]
      [] name = "fator_utilizacao"    -> fator_utilizacao[u]
      [] name = "numero_funcionarios" -> numero_funcionarios[u]

\* No membership function is under evaluation.
NoProbe == [var |-> "", term |-> "", x |-> None, degree |-> None]

\* The objects and the page of a run that has just started.
FreshRun(open) ==
    /\ pc = [u \in Sessions |-> IF u \in open THEN "l67" ELSE "closed"]
    /\ sim = [u \in Sessions |-> ControlSystemSimulation]
    /\ safe = [u \in Sessions |-> "pending"]
    /\ st_error = [u \in Sessions |-> ""]
    /\ st_write = [u \in Sessions |-> None]
    /\ charts = [u \in Sessions |-> <<>>]

\* One session opens the page: the sliders are at their default.
Init ==
    /\ system = ControlSystem
    /\ tempo_espera = [u \in Sessions |-> SliderDefault]
    /\ fator_utilizacao = [u \in Sessions |-> SliderDefault]
    /\ numero_funcionarios = [u \in Sessions |-> SliderDefault]
    /\ FreshRun({"A"})
    /\ probe = NoProbe

\* Bind on one simulation that every session shares.
BindShared(u, line, name, next) ==
    /\ pc[u] = line
    /\ sim' = [w \in Sessions |-> set_input(sim[w], name, slider(u, name))]
    /\ pc' = [pc EXCEPT ![u] = next]
    /\ UNCHANGED <<system, tempo_espera, fator_utilizacao, numero_funcionarios,
                   safe, st_error, st_write, charts, probe>>

\* Lines 67-69: sim.input[name] = the slider's value.
Bind(u, line, name, next) ==
    /\ pc[u] = line
    /\ sim' = [sim EXCEPT ![u] = set_input(@, name, slider(u, name))]
    /\ pc' = [pc EXCEPT ![u] = next]
    /\ UNCHANGED <<system, sliders, safe, display, probe>>

Line67(u) == Bind(u, "l67", "tempo_espera", "l68")
Line68(u) == Bind(u, "l68", "fator_utilizacao", "l69")
Line69(u) == Bind(u, "l69", "numero_funcionarios", "l72")

\* safe_compute(simulation), lines 11-17: compute(); an exception is
\* displayed with st.error and turned into False.
safe_compute(u) ==
    \E done \in {compute(system, sim[u])} :
        /\ sim' = [sim EXCEPT ![u] = done.sim]
        /\ safe' = [safe EXCEPT ![u] = IF done.error = "" THEN "True" ELSE "False"]
        /\ st_error' = [st_error EXCEPT ![u] = done.error]

\* Line 72: if safe_compute(sim): the write of line 73 is skipped on False.
Line72(u) ==
    /\ pc[u] = "l72"
    /\ safe_compute(u)
    /\ pc' = [pc EXCEPT ![u] = IF safe'[u] = "True" THEN "l73" ELSE "l145"]
    /\ UNCHANGED <<system, sliders, st_write, charts, probe>>

\* sim.output["numero_pecas"]: the value, or a KeyError when compute()
\* stored none.
HasOutput(u) == "numero_pecas" \in DOMAIN sim[u].output

\* Line 73: st.write of the output to two decimals.
Line73(u) ==
    /\ pc[u] = "l73"
    /\ IF HasOutput(u)
       THEN /\ st_write' = [st_write EXCEPT ![u] = format_2f(sim[u].output.numero_pecas)]
            /\ pc' = [pc EXCEPT ![u] = "l145"]
       ELSE /\ st_write' = st_write
            /\ pc' = [pc EXCEPT ![u] = "KeyError"]
    /\ UNCHANGED <<system, sliders, sim, safe, st_error, charts, probe>>

\* plot_fuzzy_var(var, ...), lines 76-141: one trace per term and the
\* markers asked for.
plot_fuzzy_var(var, input_value, output_value) ==
    [var |-> var, input_value |-> input_value, output_value |-> output_value]

\* Lines 145-147: the charts of the three antecedents, each with its
\* slider value marked.
Line145(u) ==
    /\ pc[u] = "l145"
    /\ charts' = [charts EXCEPT ![u] = @ \o
          <<plot_fuzzy_var("tempo_espera", tempo_espera[u], <<>>),
            plot_fuzzy_var("fator_utilizacao", fator_utilizacao[u], <<>>),
            plot_fuzzy_var("numero_funcionarios", numero_funcionarios[u], <<>>)>>]
    /\ pc' = [pc EXCEPT ![u] = "l148"]
    /\ UNCHANGED <<system, sliders, sim, safe, st_error, st_write, probe>>

\* Line 148: the chart of numero_pecas with the output marked.  The
\* argument sim.output["numero_pecas"] is evaluated whatever safe_compute
\* returned; without the key the run ends in a KeyError.
Line148(u) ==
    /\ pc[u] = "l148"
    /\ IF HasOutput(u)
       THEN /\ charts' = [charts EXCEPT ![u] = Append(@,
                  plot_fuzzy_var("numero_pecas", None, sim[u].output.numero_pecas))]
            /\ pc' = [pc EXCEPT ![u] = "done"]
       ELSE /\ charts' = charts
            /\ pc' = [pc EXCEPT ![u] = "KeyError"]
    /\ UNCHANGED <<system, sliders, sim, safe, st_error, st_write, probe>>

\* The user moves one slider to a position of V: the script runs again
\* from the top, with new objects and an empty page.
Rerun(u, V) ==
    /\ pc[u] \in {"done", "KeyError"}
    /\ \E name \in InputNames, v \in V :
          /\ v # slider(u, name)
          /\ tempo_espera' = [tempo_espera EXCEPT ![u] =
                IF name = "tempo_espera" THEN v ELSE @]
          /\ fator_utilizacao' = [fator_utilizacao EXCEPT ![u] =
                IF name = "fator_utilizacao" THEN v ELSE @]
          /\ numero_funcionarios' = [numero_funcionarios EXCEPT ![u] =
                IF name = "numero_funcionarios" THEN v ELSE @]
    /\ pc' = [pc EXCEPT ![u] = "l67"]
    /\ sim' = [sim EXCEPT ![u] = ControlSystemSimulation]
    /\ safe' = [safe EXCEPT ![u] = "pending"]
    /\ st_error' = [st_error EXCEPT ![u] = ""]
    /\ st_write' = [st_write EXCEPT ![u] = None]
    /\ charts' = [charts EXCEPT ![u] = <<>>]
    /\ UNCHANGED <<system, probe>>

\* One line of one session's run.
Step(u) ==
    \/ Line67(u)
    \/ Line68(u)
    \/ Line69(u)
    \/ Line72(u)
    \/ Line73(u)
    \/ Line145(u)
    \/ Line148(u)

Next ==
    \E u \in Sessions :
        \/ Step(u)
        \/ Rerun(u, SliderValues(SliderStride))

Spec == Init /\ [][Next]_vars

-----------------------------------------------------------------------------
(* The rule list in any order: ControlSystem(rules) with the four rules
   permuted, and the same script.                                          *)

RuleOrders ==
    {[i \in 1 .. Len(ControlSystem) |-> ControlSystem[q[i]]] :
        q \in Permutations(1 .. Len(ControlSystem))}

InitPerm ==
    /\ system \in RuleOrders
    /\ tempo_espera = [u \in Sessions |-> SliderDefault]
    /\ fator_utilizacao = [u \in Sessions |-> SliderDefault]
    /\ numero_funcionarios = [u \in Sessions |-> SliderDefault]
    /\ FreshRun({"A"})
    /\ probe = NoProbe

NextPerm ==
    \E u \in Sessions :
        \/ Step(u)
        \/ Rerun(u, SliderValues(PermStride))

SpecPerm == InitPerm /\ [][NextPerm]_vars

-----------------------------------------------------------------------------
(* Two sessions at once, each running the script once with its own
   objects, their lines interleaved in any order.                          *)

InitConc ==
    /\ system = ControlSystem
    /\ tempo_espera \in [Sessions -> SliderValues(ConcStride)]
    /\ fator_utilizacao \in [Sessions -> SliderValues(ConcStride)]
    /\ numero_funcionarios \in [Sessions -> SliderValues(ConcStride)]
    /\ FreshRun(Sessions)
    /\ probe = NoProbe

NextConc == \E u \in Sessions : Step(u)

SpecConc == InitConc /\ [][NextConc]_vars

-----------------------------------------------------------------------------
(* The simulation object on its own: inputs bound and compute() called in
   any order, as a caller other than the script may do.                    *)

InitApi ==
    /\ system = ControlSystem
    /\ tempo_espera = [u \in Sessions |-> SliderDefault]
    /\ fator_utilizacao = [u \in Sessions |-> SliderDefault]
    /\ numero_funcionarios = [u \in Sessions |-> SliderDefault]
    /\ FreshRun({})
    /\ probe = NoProbe

\* sim.input[name] = v.
ApiInput(u, name, v) ==
    /\ sim' = [sim EXCEPT ![u] = set_input(@, name, v)]
    /\ UNCHANGED <<system, pc, sliders, safe, display, probe>>

\* safe_compute(sim).
ApiCompute(u) ==
    /\ safe_compute(u)
    /\ UNCHANGED <<system, pc, sliders, st_write, charts, probe>>

NextApi ==
    \/ \E name \in InputNames, v \in SliderValues(ApiStride) :
          ApiInput("A", name, v)
    \/ ApiCompute("A")

SpecApi == InitApi /\ [][NextApi]_vars

-----------------------------------------------------------------------------
(* One membership function read at one sample point, as the charts and
   the fuzzification read it.                                              *)

LinguisticVariables ==
    [tempo_espera        |-> m,
     fator_utilizacao    |-> p,
     numero_funcionarios |-> s,
     numero_pecas        |-> n]

Breakpoints ==
    [tempo_espera        |-> m_abcd,
     fator_utilizacao    |-> p_abcd,
     numero_funcionarios |-> s_abcd,
     numero_pecas        |-> n_abcd]

InitMF ==
    /\ system = ControlSystem
    /\ tempo_espera = [u \in Sessions |-> SliderDefault]
    /\ fator_utilizacao = [u \in Sessions |-> SliderDefault]
    /\ numero_funcionarios = [u \in Sessions |-> SliderDefault]
    /\ FreshRun({})
    /\ \E var \in DOMAIN LinguisticVariables :
          \E term \in DOMAIN LinguisticVariables[var], x \in Universe :
             probe = [var |-> var, term |-> term, x |-> x, degree |-> None]

\* var[label].mf at the sample point x.
Evaluate ==
    /\ probe.degree = None
    /\ probe' = [probe EXCEPT
                    !.degree = at(LinguisticVariables[probe.var][probe.term], probe.x)]
    /\ UNCHANGED <<system, pc, sliders, sim, safe, display>>

NextMF == Evaluate

SpecMF == InitMF /\ [][NextMF]_vars

-----------------------------------------------------------------------------
(* Properties.                                                             *)

\* safe_compute has returned in session u's run.
Computed(u) == safe[u] # "pending"

\* The crisp output a simulation holds, <<>> when it holds none.
OutputOf(simulation) ==
    IF "numero_pecas" \in DOMAIN simulation.output
    THEN simulation.output.numero_pecas
    ELSE <<>>

\* The degree of a term at the input bound to its variable.
Degree(u, var, label) ==
    interp_membership(Antecedents[var][label], sim[u].input[var])

AllBound(u) == \A v \in InputNames : sim[u].input[v] # None

AllStrengthsZero(u) == \A r \in RuleLabels : sim[u].firing[r] = 0

\* C1: whenever compute() ran on a triple for which all four rules have
\* firing strength 0, it failed with DefuzzificationUndefined and the
\* simulation holds no value for numero_pecas (not 0, not anything).
C1_ZeroStrengthsFail ==
    \A u \in Sessions :
        (Computed(u) /\ AllBound(u) /\ AllStrengthsZero(u)) =>
            /\ safe[u] = "False"
            /\ st_error[u] = DefuzzificationUndefined
            /\ OutputOf(sim[u]) = <<>>
            /\ st_write[u] = None

C1_Witness ==
    \E u \in Sessions :
        /\ Computed(u) /\ AllBound(u) /\ AllStrengthsZero(u)
        /\ st_error[u] = DefuzzificationUndefined

\* The degree the declared shape has at x, in the reals: d is that degree
\* (in units of 1/DegOne) iff Shape holds.  Three breakpoints are a
\* triangle (a, b, c), four a trapezoid (a, b, c, d).
Shape(pts, x, d) ==
    LET a == pts[1]
        b == pts[2]
        c == IF Len(pts) = 3 THEN pts[2] ELSE pts[3]
        e == pts[Len(pts)]
    IN  /\ (x < a \/ x > e) => d = 0
        /\ (b <= x /\ x <= c) => d = DegOne
        /\ (a < x /\ x < b) => d * (b - a) = (x - a) * DegOne
        /\ (c < x /\ x < e) => d * (e - c) = (e - x) * DegOne
        /\ (x = a /\ a < b) => d = 0
        /\ (x = e /\ c < e) => d = 0

\* C2: every declared membership function, at every sample point of its
\* universe, is 0 outside its support, 1 on the plateau (at the peak) and
\* linear on the ramps; tempo_espera.muito_pequeno is 1 at 0.05, 0.5 at
\* 0.2 and 0 at 0.4.
C2_DegreeMatchesShape ==
    probe.degree # None =>
        /\ Shape(Breakpoints[probe.var][probe.term], probe.x, probe.degree)
        /\ (probe.var = "tempo_espera" /\ probe.term = "muito_pequeno") =>
              /\ probe.x = 50 => probe.degree = DegOne
              /\ probe.x = 200 => 2 * probe.degree = DegOne
              /\ probe.x = 400 => probe.degree = 0

C2_Witness ==
    /\ probe.var = "tempo_espera"
    /\ probe.term = "muito_pequeno"
    /\ probe.x = 200
    /\ 2 * probe.degree = DegOne

\* C3: every firing strength is in [0, 1]; rule1 and rule2 fire with the
\* minimum of their two operand degrees, rule3 and rule4 with their
\* term's degree, and an OR of two operands evaluates to their maximum.
C3_FiringStrengths ==
    \A u \in Sessions :
        (Computed(u) /\ AllBound(u)) =>
            LET w == sim[u].firing
                mp == Degree(u, "tempo_espera", "muito_pequeno")
                pq == Degree(u, "tempo_espera", "pequeno")
                sp == Degree(u, "numero_funcionarios", "pequeno")
                sg == Degree(u, "numero_funcionarios", "grande")
            IN  /\ \A r \in RuleLabels : w[r] \in 0 .. DegOne
                /\ w["rule1"] = (IF mp <= sp THEN mp ELSE sp)
                /\ w["rule2"] = (IF pq <= sg THEN pq ELSE sg)
                /\ w["rule3"] = Degree(u, "fator_utilizacao", "baixo")
                /\ w["rule4"] = Degree(u, "fator_utilizacao", "alto")
                /\ aggregate_firing(Or(rule1.antecedent.left, rule1.antecedent.right),
                                    fuzz(sim[u].input))
                      = (IF mp >= sp THEN mp ELSE sp)

C3_Witness ==
    \E u \in Sessions :
        /\ Computed(u) /\ AllBound(u)
        /\ sim[u].firing["rule1"] > 0
        /\ sim[u].firing["rule1"] < DegOne
        /\ sim[u].firing["rule1"] = Degree(u, "numero_funcionarios", "pequeno")
        /\ sim[u].firing["rule1"] < Degree(u, "tempo_espera", "muito_pequeno")

\* Only rule3 contributes: fator_utilizacao is 0.0 and the other three
\* rules have firing strength 0.
OnlyRule3(u) ==
    /\ Computed(u) /\ AllBound(u)
    /\ sim[u].input["fator_utilizacao"] = 0
    /\ sim[u].firing["rule1"] = 0
    /\ sim[u].firing["rule2"] = 0
    /\ sim[u].firing["rule4"] = 0

\* C4: with fator_utilizacao = 0.0 and only rule3 contributing, rule3
\* fires with strength 1 and compute() yields numero_pecas = 0.2, the
\* peak of Triangle(0, 0.2, 0.4).
C4_CentroidIsPeak ==
    \A u \in Sessions :
        OnlyRule3(u) =>
            /\ sim[u].firing["rule3"] = DegOne
            /\ safe[u] = "True"
            /\ OutputOf(sim[u]) = <<200, 1>>

C4_Witness ==
    \E u \in Sessions : OnlyRule3(u) /\ OutputOf(sim[u]) = <<200, 1>>

\* Session u's compute() has just returned.
Returns(u) == pc[u] = "l72" /\ pc'[u] # "l72"

\* C5: whatever the order of the rule list, compute() leaves the same
\* aggregate of numero_pecas and the same outcome (the value or the
\* failure) as the order rule1, rule2, rule3, rule4 does.
C5_RuleOrderImmaterial ==
    [][\A u \in Sessions :
          Returns(u) =>
              \E ref \in {compute(ControlSystem, sim[u])} :
                  /\ output_mf(sim'[u].membership_value)
                        = output_mf(ref.sim.membership_value)
                  /\ OutputOf(sim'[u]) = OutputOf(ref.sim)
                  /\ st_error'[u] = ref.error]_vars

C5_Witness ==
    \E u \in Sessions :
        /\ system[1].label = "rule3"
        /\ system[2].label = "rule2"
        /\ Computed(u)
        /\ sim[u].firing["rule2"] > sim[u].firing["rule3"]
        /\ sim[u].firing["rule3"] > 0
        /\ OutputOf(sim[u]) # <<>>

C7_DegenerateIsStep ==
    (probe.degree # None /\ Len(Breakpoints[probe.var][probe.term]) = 4) =>
        LET pts == Breakpoints[probe.var][probe.term]
        IN  /\ probe.degree # NaN
            /\ (pts[1] = pts[2] /\ probe.x = pts[1]) => probe.degree = DegOne
            /\ (pts[3] = pts[4] /\ probe.x > pts[3]) => probe.degree = 0

C7_Witness ==
    /\ probe.var = "tempo_espera"
    /\ probe.term = "muito_pequeno"
    /\ probe.x = 0
    /\ probe.degree = DegOne

\* What belongs to session u.
Own(u) ==
    <<pc[u], tempo_espera[u], fator_utilizacao[u], numero_funcionarios[u],
      sim[u], safe[u], st_error[u], st_write[u], charts[u]>>

\* compute() on a simulation of its own with u's slider values bound.
Alone(u) ==
    compute(ControlSystem,
            set_input(set_input(set_input(ControlSystemSimulation,
                "tempo_espera", tempo_espera[u]),
                "fator_utilizacao", fator_utilizacao[u]),
                "numero_funcionarios", numero_funcionarios[u]))

C9_OutputReadOnlyAfterSuccess ==
    \A u \in Sessions :
        /\ pc[u] # "KeyError"
        /\ (st_write[u] # None \/ Len(charts[u]) > 3) => safe[u] = "True"

\* The input triples the claim says have all firing strengths zero.
AllZeroRegion(u) ==
    /\ 400 <= fator_utilizacao[u] /\ fator_utilizacao[u] <= 600
    /\ (tempo_espera[u] >= 300 \/ numero_funcionarios[u] >= 600)
    /\ (tempo_espera[u] <= 100 \/ tempo_espera[u] >= 500
           \/ numero_funcionarios[u] <= 600)

\* C10: compute() fails, with every firing strength zero, exactly on the
\* triples of AllZeroRegion; on every other triple it succeeds with a
\* numeric output.
C10_FailsExactlyInRegion ==
    \A u \in Sessions :
        Computed(u) =>
            IF AllZeroRegion(u)
            THEN /\ AllStrengthsZero(u)
                 /\ safe[u] = "False"
                 /\ st_error[u] = DefuzzificationUndefined
            ELSE /\ ~AllStrengthsZero(u)
                 /\ safe[u] = "True"
                 /\ Len(OutputOf(sim[u])) = 2
                 /\ OutputOf(sim[u])[2] > 0

C10_Witness ==
    \E u \in Sessions :
        /\ Computed(u)
        /\ AllZeroRegion(u)
        /\ tempo_espera[u] = 100
        /\ numero_funcionarios[u] = 600
        /\ safe[u] = "False"

=============================================================================
